---- MODULE Spec2Model ----
(***************************************************************************)
(* Model of the utility module src/src/functions.js of                     *)
(* odin-testing-practice: capitalize, reverseString, calculator,           *)
(* caesarCipher and analyzeArray, of the Manager singleton of              *)
(* src/src/models/Manager.js and of the DialogView of                      *)
(* src/src/views/MainView.js, each translated from its JavaScript source.  *)
(*                                                                         *)
(* JavaScript values are records [t, s, num, den]:                         *)
(*   t    the kind of value ("string", "number", "null", "undefined",     *)
(*        "object", "array");                                              *)
(*   s    for a string, its sequence of UTF-16 code units; for an array,   *)
(*        its sequence of elements;                                        *)
(*   num, den  for a number, the value num/den in lowest terms with        *)
(*        den >= 1; NaN is 0/0, the negative zero is 0/-1 and an infinity  *)
(*        is 1/0 or -1/0.                                                  *)
(* Finite numbers are kept as exact fractions: the bounded inputs are      *)
(* small integers and halves, on which +, - and * are exact in IEEE-754,   *)
(* and a quotient stands for the double nearest to it.                     *)
(***************************************************************************)
EXTENDS Integers, Sequences, FiniteSets, TLC

VARIABLES
    fn,       \* name of the exported function that is called
    args,     \* the arguments of the call, a sequence of JavaScript values
    outcome,  \* NoCall while the call is pending, then its return or throw
    tasks,    \* invocations that run interleaved, one record per invocation
    manager,  \* the Manager singleton: _models, _activeModel, _defaultModel
    nextId,   \* the number of ids crypto.randomUUID() has handed out, plus 1
    storage,  \* the application state kept by Storage, null before a save
    dialog,   \* a DialogView: its dialog element being open, _context,
              \* _onSubmit and _onCancel
    controls, \* the input, textarea and select elements inside the dialog
    observed, \* what the callers of the DialogView saw: the context of the
              \* latest open() and the calls made to the callbacks by the
              \* latest click
    carousel, \* a CarouselView: _slideIndex, the number of its slides, _loop,
              \* _autoCycle and _cycleTimer
    timers    \* the interval timers of the window: the ids scheduled and not
              \* cleared, and the number of ids setInterval has returned

callVars == <<fn, args, outcome>>
mgrVars == <<manager, nextId, storage>>
dlgVars == <<dialog, controls, observed>>
crsVars == <<carousel, timers>>
\* the variables each specification leaves alone
nonCallVars == <<tasks, mgrVars, dlgVars, crsVars>>
nonTaskVars == <<callVars, mgrVars, dlgVars, crsVars>>
nonMgrVars == <<tasks, dlgVars, crsVars>>
nonDlgVars == <<tasks, mgrVars, crsVars>>
nonCrsVars == <<tasks, mgrVars, dlgVars>>
vars == <<fn, args, outcome, tasks, manager, nextId, storage, dialog, controls,
          observed, carousel, timers>>

(***************************************************************************)
(* Bounds of the model                                                     *)
(***************************************************************************)
\* longest string passed to an operation, in code units
MaxLen == 3
\* shift factors range over -MaxShift .. MaxShift
MaxShift == 28
\* calculator operands are the integers and halves n/2 with |n| <= MaxNum
MaxNum == 5
\* longest array passed to analyzeArray
MaxArrayLen == 3
\* array elements are the integers and halves n/2 with |n| <= MaxElem
MaxElem == 2
\* longest string of an interleaved invocation
MaxTaskLen == 2
\* number of models created in the life of the manager
MaxCreated == 3
\* number of form controls inside the dialog
MaxControls == 2
\* number of slides of the carousel
MaxSlides == 3
\* number of interval timers made in the life of the window
MaxTimers == 3

(***************************************************************************)
(* JavaScript values                                                       *)
(***************************************************************************)
Str(units) == [t |-> "string", s |-> units, num |-> 0, den |-> 0]
Num(n, d)  == [t |-> "number", s |-> <<>>, num |-> n, den |-> d]
Integer(n) == Num(n, 1)
NaN        == Num(0, 0)
NegZero    == Num(0, -1)
Null       == [t |-> "null", s |-> <<>>, num |-> 0, den |-> 0]
Undefined  == [t |-> "undefined", s |-> <<>>, num |-> 0, den |-> 0]
Obj        == [t |-> "object", s |-> <<>>, num |-> 0, den |-> 0]
Arr(elems) == [t |-> "array", s |-> elems, num |-> 0, den |-> 0]

\* typeof v
TypeOf(v) ==
    IF v.t \in {"null", "array"} THEN "object" ELSE v.t

\* the truthiness of v, as tested by !v
ToBoolean(v) ==
    CASE v.t = "string" -> v.s # <<>>
      [] v.t = "number" -> v.num # 0
      [] v.t = "object" -> TRUE
      [] v.t = "array" -> TRUE
      [] OTHER -> FALSE

\* how a call ends
Return(v) == [kind |-> "return", val |-> v, err |-> "none"]
Throw(e)  == [kind |-> "throw", val |-> Undefined, err |-> e]
NoCall    == [kind |-> "none", val |-> Undefined, err |-> "none"]

(***************************************************************************)
(* Strings: sequences of UTF-16 code units                                 *)
(***************************************************************************)
\* ','  'A'  'Z'  '_'  'a'  'z'  U+00DF (sharp s)  and the surrogate pair
\* D83D DE00 of U+1F600
Alphabet == {44, 65, 90, 95, 97, 122, 223, 55357, 56832}

Strings == UNION {[1..n -> Alphabet] : n \in 0..MaxLen}

\* string[i], with the 0-based index of the source
CharAt(string, i) == <<string[i + 1]>>

\* string.slice(start) for 0 <= start
slice(string, start) == SubSeq(string, start + 1, Len(string))

\* String.prototype.toUpperCase on the code units of the alphabet:
\* a-z map to A-Z, U+00DF maps to the two units "SS", every other unit of
\* the alphabet (and a lone surrogate) has no upper-case mapping
RECURSIVE toUpperCase(_)
toUpperCase(string) ==
    IF string = <<>> THEN <<>>
    ELSE LET c == Head(string)
             u == IF c >= 97 /\ c <= 122 THEN <<c - 32>>
                  ELSE IF c = 223 THEN <<83, 83>>
                  ELSE <<c>>
         IN u \o toUpperCase(Tail(string))

\* x <= y for strings: lexicographic order on code units
RECURSIVE StrLeq(_, _)
StrLeq(x, y) ==
    IF x = <<>> THEN TRUE
    ELSE IF y = <<>> THEN FALSE
    ELSE IF Head(x) # Head(y) THEN Head(x) < Head(y)
    ELSE StrLeq(Tail(x), Tail(y))

\* String.fromCharCode(n): the code unit n modulo 2^16
fromCharCode(n) == <<n % 65536>>

\* the element the string iterator yields at index pos: a whole surrogate
\* pair when one starts there, else one code unit
CodePointAt(string, pos) ==
    LET first == string[pos + 1]
    IN IF /\ first >= 55296 /\ first <= 56319
          /\ pos + 1 < Len(string)
          /\ string[pos + 2] >= 56320 /\ string[pos + 2] <= 57343
       THEN <<first, string[pos + 2]>>
       ELSE <<first>>

(***************************************************************************)
(* capitalize                                                              *)
(***************************************************************************)
\* capitalize with the whole string upper-cased
capitalize_upperAll(string) ==
    IF TypeOf(string) # "string" THEN Throw("TypeError")
    ELSE IF string.s = <<>> THEN Return(Str(<<>>))
    ELSE Return(Str(toUpperCase(string.s)))

\* capitalize with a truthiness test in place of the typeof test
capitalize_falsyCheck(string) ==
    IF ~ToBoolean(string) /\ TypeOf(string) # "string" THEN Throw("TypeError")
    ELSE IF string.s = <<>> THEN Return(Str(<<>>))
    ELSE Return(Str(toUpperCase(CharAt(string.s, 0)) \o slice(string.s, 1)))

capitalize(string) ==
    IF TypeOf(string) # "string" THEN Throw("TypeError")
    ELSE IF string.s = <<>> THEN Return(Str(<<>>))
    ELSE Return(Str(toUpperCase(CharAt(string.s, 0)) \o slice(string.s, 1)))

(***************************************************************************)
(* reverseString                                                           *)
(***************************************************************************)
\* the for loop with the condition i > 0
RECURSIVE reverseLoop_skipFirst(_, _, _)
reverseLoop_skipFirst(string, i, reversed) ==
    IF i > 0
    THEN reverseLoop_skipFirst(string, i - 1, reversed \o CharAt(string, i))
    ELSE reversed

\* the for loop: i runs from string.length - 1 down to 0
RECURSIVE reverseLoop(_, _, _)
reverseLoop(string, i, reversed) ==
    IF i >= 0
    THEN reverseLoop(string, i - 1, reversed \o CharAt(string, i))
    ELSE reversed

\* reverseString by code points, as [...string].reverse().join("") does
RECURSIVE reverseCodePoints(_, _, _)
reverseCodePoints(string, pos, reversed) ==
    IF pos < Len(string)
    THEN LET char == CodePointAt(string, pos)
         IN reverseCodePoints(string, pos + Len(char), char \o reversed)
    ELSE reversed

reverseString_byCodePoint(string) ==
    IF TypeOf(string) # "string" THEN Throw("TypeError")
    ELSE Return(Str(reverseCodePoints(string.s, 0, <<>>)))

reverseString(string) ==
    IF TypeOf(string) # "string" THEN Throw("TypeError")
    ELSE Return(Str(reverseLoop(string.s, Len(string.s) - 1, <<>>)))

(***************************************************************************)
(* Numbers                                                                 *)
(***************************************************************************)
Abs(n) == IF n < 0 THEN -n ELSE n
Range(f) == {f[x] : x \in DOMAIN f}
Sign(n) == IF n < 0 THEN -1 ELSE IF n > 0 THEN 1 ELSE 0

RECURSIVE Gcd(_, _)
Gcd(a, b) == IF b = 0 THEN a ELSE Gcd(b, a % b)

\* the number n/d (d # 0) in lowest terms with a positive denominator
Rat(n, d) ==
    LET g == Gcd(Abs(n), Abs(d))
    IN Num(Sign(d) * (n \div g), Abs(d) \div g)

IsNaN(v) == v.num = 0 /\ v.den = 0
IsZero(v) == v.num = 0 /\ v.den # 0

\* num1 + num2, num1 - num2, num1 * num2 and num1 / num2 on number values
\* that are finite or NaN (either zero counts as 0 in an operand)
Plus(num1, num2) ==
    IF IsNaN(num1) \/ IsNaN(num2) THEN NaN
    ELSE Rat(num1.num * Abs(num2.den) + num2.num * Abs(num1.den),
             Abs(num1.den) * Abs(num2.den))

Minus(num1, num2) ==
    IF IsNaN(num1) \/ IsNaN(num2) THEN NaN
    ELSE Rat(num1.num * Abs(num2.den) - num2.num * Abs(num1.den),
             Abs(num1.den) * Abs(num2.den))

Times(num1, num2) ==
    IF IsNaN(num1) \/ IsNaN(num2) THEN NaN
    ELSE Rat(num1.num * num2.num, Abs(num1.den) * Abs(num2.den))

Quotient(num1, num2) ==
    IF IsNaN(num1) \/ IsNaN(num2) THEN NaN
    ELSE IF IsZero(num2)
    THEN \* x / 0 is an infinity, 0 / 0 is NaN
         Num(Sign(num1.num) * Sign(num2.den), 0)
    ELSE Rat(num1.num * Abs(num2.den), Abs(num1.den) * num2.num)

\* n % m on integers: the remainder of the truncating division, which has
\* the sign of the dividend
Rem(n, m) ==
    IF n >= 0 THEN n % Abs(m) ELSE -((-n) % Abs(m))

\* Number.isInteger(v)
NumberIsInteger(v) == v.t = "number" /\ Abs(v.den) = 1

(***************************************************************************)
(* calculator                                                              *)
(***************************************************************************)
\* add with the typeof tests only
add_typeofOnly(num1, num2) ==
    IF TypeOf(num1) # "number" \/ TypeOf(num2) # "number"
    THEN Throw("TypeError")
    ELSE Return(Plus(num1, num2))

\* add returning num1 - num2
add_asSubtract(num1, num2) ==
    IF \/ ~ToBoolean(num1) \/ ~ToBoolean(num2)
       \/ TypeOf(num1) # "number" \/ TypeOf(num2) # "number"
    THEN Throw("TypeError")
    ELSE Return(Minus(num1, num2))

add(num1, num2) ==
    IF \/ ~ToBoolean(num1) \/ ~ToBoolean(num2)
       \/ TypeOf(num1) # "number" \/ TypeOf(num2) # "number"
    THEN Throw("TypeError")
    ELSE Return(Plus(num1, num2))

\* subtract returning num1 + num2
subtract_asAdd(num1, num2) ==
    IF \/ ~ToBoolean(num1) \/ ~ToBoolean(num2)
       \/ TypeOf(num1) # "number" \/ TypeOf(num2) # "number"
    THEN Throw("TypeError")
    ELSE Return(Plus(num1, num2))

subtract(num1, num2) ==
    IF \/ ~ToBoolean(num1) \/ ~ToBoolean(num2)
       \/ TypeOf(num1) # "number" \/ TypeOf(num2) # "number"
    THEN Throw("TypeError")
    ELSE Return(Minus(num1, num2))

\* divide with the typeof tests only, followed by the test of the divisor
divide_typeofOnly(num1, num2) ==
    IF TypeOf(num1) # "number" \/ TypeOf(num2) # "number"
    THEN Throw("TypeError")
    ELSE IF TypeOf(num2) = "number" /\ IsZero(num2)
    THEN Throw("Error")
    ELSE Return(Quotient(num1, num2))

\* divide with the zero-divisor check ahead of the falsy guard
divide_zeroCheckFirst(num1, num2) ==
    IF TypeOf(num2) = "number" /\ IsZero(num2)
    THEN Throw("Error")
    ELSE IF \/ ~ToBoolean(num1) \/ ~ToBoolean(num2)
            \/ TypeOf(num1) # "number" \/ TypeOf(num2) # "number"
    THEN Throw("TypeError")
    ELSE Return(Quotient(num1, num2))

divide(num1, num2) ==
    IF \/ ~ToBoolean(num1) \/ ~ToBoolean(num2)
       \/ TypeOf(num1) # "number" \/ TypeOf(num2) # "number"
    THEN Throw("TypeError")
    ELSE IF TypeOf(num2) = "number" /\ IsZero(num2)
    THEN Throw("Error")
    ELSE Return(Quotient(num1, num2))

multiply(num1, num2) ==
    IF \/ ~ToBoolean(num1) \/ ~ToBoolean(num2)
       \/ TypeOf(num1) # "number" \/ TypeOf(num2) # "number"
    THEN Throw("TypeError")
    ELSE Return(Times(num1, num2))

(***************************************************************************)
(* caesarCipher                                                            *)
(***************************************************************************)
ALPHABET_SIZE == 26
A_CODE == 65
a_CODE == 97

\* mod as the bare remainder n % m
mod_truncating(n, m) == Rem(n, m)

\* mod without the second remainder
mod_noSecondRem(n, m) == Rem(n, m) + m

\* Helper: proper modulo that handles negatives
mod(n, m) == Rem(Rem(n, m) + m, m)

\* shiftCharacter without the % ALPHABET_SIZE after the addition
shiftCharacter_noWrap(char, shiftFactor) ==
    LET normalized == Rem(Rem(shiftFactor, ALPHABET_SIZE) + ALPHABET_SIZE, ALPHABET_SIZE)
        charCode == char[1]
    IN IF StrLeq(<<A_CODE>>, char) /\ StrLeq(char, <<90>>)
       THEN fromCharCode((charCode - A_CODE + normalized) + A_CODE)
       ELSE IF StrLeq(<<a_CODE>>, char) /\ StrLeq(char, <<122>>)
       THEN fromCharCode((charCode - a_CODE + normalized) + a_CODE)
       ELSE char

\* shiftCharacter without the normalisation of shiftFactor
shiftCharacter_noNormalize(char, shiftFactor) ==
    LET charCode == char[1]
    IN IF StrLeq(<<A_CODE>>, char) /\ StrLeq(char, <<90>>)
       THEN fromCharCode(Rem(charCode - A_CODE + shiftFactor, ALPHABET_SIZE) + A_CODE)
       ELSE IF StrLeq(<<a_CODE>>, char) /\ StrLeq(char, <<122>>)
       THEN fromCharCode(Rem(charCode - a_CODE + shiftFactor, ALPHABET_SIZE) + a_CODE)
       ELSE char

\* Helper: shift a single character; char is one element of the string
\* iteration and shiftFactor the integer value of the second argument
shiftCharacter(char, shiftFactor) ==
    LET normalized == mod(shiftFactor, ALPHABET_SIZE)
        charCode == char[1]
    IN IF StrLeq(<<A_CODE>>, char) /\ StrLeq(char, <<90>>)
       THEN fromCharCode(Rem(charCode - A_CODE + normalized, ALPHABET_SIZE) + A_CODE)
       ELSE IF StrLeq(<<a_CODE>>, char) /\ StrLeq(char, <<122>>)
       THEN fromCharCode(Rem(charCode - a_CODE + normalized, ALPHABET_SIZE) + a_CODE)
       ELSE char

\* the for-of loop: pos is the index of the next code unit to iterate
RECURSIVE caesarLoop(_, _, _, _)
caesarLoop(string, pos, shiftFactor, shifted) ==
    IF pos < Len(string)
    THEN LET char == CodePointAt(string, pos)
         IN caesarLoop(string, pos + Len(char), shiftFactor,
                       shifted \o shiftCharacter(char, shiftFactor))
    ELSE shifted

\* caesarCipher testing typeof shiftFactor in place of Number.isInteger
caesarCipher_typeofNumber(string, shiftFactor) ==
    IF TypeOf(string) # "string" THEN Throw("TypeError")
    ELSE IF TypeOf(shiftFactor) # "number" THEN Throw("TypeError")
    ELSE Return(Str(caesarLoop(string.s, 0, shiftFactor.num, <<>>)))

caesarCipher(string, shiftFactor) ==
    IF TypeOf(string) # "string" THEN Throw("TypeError")
    ELSE IF ~NumberIsInteger(shiftFactor) THEN Throw("TypeError")
    ELSE Return(Str(caesarLoop(string.s, 0, shiftFactor.num, <<>>)))

(***************************************************************************)
(* analyzeArray                                                            *)
(***************************************************************************)
\* Array.isArray(v)
ArrayIsArray(v) == v.t = "array"

\* a < b on number values; every comparison with NaN is false
NumLess(a, b) == a.num * Abs(b.den) < b.num * Abs(a.den)

\* arr.reduce((a, b) => a + b) on a non-empty array: the accumulator starts
\* as the first element and i is the index of the next element
RECURSIVE reduceSum(_, _, _)
reduceSum(elems, i, a) ==
    IF i < Len(elems)
    THEN reduceSum(elems, i + 1, Plus(a, elems[i + 1]))
    ELSE a

\* Math.min(...arr): NaN when an argument is NaN, else the lowest
\* argument, starting from +Infinity
RECURSIVE MathMin(_, _, _)
MathMin(elems, i, lowest) ==
    IF i < Len(elems)
    THEN IF IsNaN(elems[i + 1]) THEN NaN
         ELSE MathMin(elems, i + 1,
                      IF NumLess(elems[i + 1], lowest) THEN elems[i + 1] ELSE lowest)
    ELSE lowest

\* Math.max(...arr): NaN when an argument is NaN, else the highest
\* argument, starting from -Infinity
RECURSIVE MathMax(_, _, _)
MathMax(elems, i, highest) ==
    IF i < Len(elems)
    THEN IF IsNaN(elems[i + 1]) THEN NaN
         ELSE MathMax(elems, i + 1,
                      IF NumLess(highest, elems[i + 1]) THEN elems[i + 1] ELSE highest)
    ELSE highest

\* analyzeArray with min and max exchanged
analyzeArray_minMaxSwapped(arr) ==
    IF ~ArrayIsArray(arr) THEN Throw("TypeError")
    ELSE IF Len(arr.s) = 0
    THEN Return([average |-> Null, min |-> Null, max |-> Null,
                 length |-> Integer(0)])
    ELSE Return([average |-> Quotient(reduceSum(arr.s, 1, arr.s[1]),
                                      Integer(Len(arr.s))),
                 min |-> MathMax(arr.s, 0, Num(-1, 0)),
                 max |-> MathMin(arr.s, 0, Num(1, 0)),
                 length |-> Integer(Len(arr.s))])

\* analyzeArray without the case of the empty array: reduce of an empty
\* array without an initial value throws a TypeError
analyzeArray_noEmptyCase(arr) ==
    IF ~ArrayIsArray(arr) THEN Throw("TypeError")
    ELSE IF Len(arr.s) = 0 THEN Throw("TypeError")
    ELSE Return([average |-> Quotient(reduceSum(arr.s, 1, arr.s[1]),
                                      Integer(Len(arr.s))),
                 min |-> MathMin(arr.s, 0, Num(1, 0)),
                 max |-> MathMax(arr.s, 0, Num(-1, 0)),
                 length |-> Integer(Len(arr.s))])

\* analyzeArray accepting whatever has a length: arrays and strings
analyzeArray_anyLength(arr) ==
    IF ~(arr.t \in {"array", "string"}) THEN Throw("TypeError")
    ELSE IF Len(arr.s) = 0
    THEN Return([average |-> Null, min |-> Null, max |-> Null,
                 length |-> Integer(0)])
    ELSE Return([average |-> NaN, min |-> NaN, max |-> NaN,
                 length |-> Integer(Len(arr.s))])

analyzeArray(arr) ==
    IF ~ArrayIsArray(arr) THEN Throw("TypeError")
    ELSE IF Len(arr.s) = 0
    THEN Return([average |-> Null, min |-> Null, max |-> Null,
                 length |-> Integer(0)])
    ELSE Return([average |-> Quotient(reduceSum(arr.s, 1, arr.s[1]),
                                      Integer(Len(arr.s))),
                 min |-> MathMin(arr.s, 0, Num(1, 0)),
                 max |-> MathMax(arr.s, 0, Num(-1, 0)),
                 length |-> Integer(Len(arr.s))])

(***************************************************************************)
(* Model and Manager                                                       *)
(***************************************************************************)
\* new Model(name, ...): the constructor takes the name as its only
\* parameter, "Untitled Model" (here "U") when it is undefined, and draws
\* the id from crypto.randomUUID(), here the fresh id
NewModel(id, name) ==
    [id |-> id,
     name |-> IF name = Undefined THEN Str(<<85>>) ELSE name,
     items |-> <<>>]

\* the manager after its constructor
NewManager == [models |-> <<>>, activeModel |-> Null, defaultModel |-> Null]

\* array.filter(keep), keep being a set of elements
RECURSIVE filter(_, _)
filter(array, keep) ==
    IF array = <<>> THEN <<>>
    ELSE IF Head(array) \in keep
    THEN <<Head(array)>> \o filter(Tail(array), keep)
    ELSE filter(Tail(array), keep)

\* the value undefined where an id is expected: the id argument of a call
\* without argument and the value of null?.id; no model has it as its id
NoId == 0

\* object?.id === id
OptionalIdIs(object, id) == (IF object = Null THEN NoId ELSE object.id) = id

\* this._models[0] ?? null
FirstOrNull(array) == IF array = <<>> THEN Null ELSE array[1]

\* createItem(name) with the fresh id of the new model: the manager after
\* the call and the value returned
createItem(m, id, name) ==
    LET item == NewModel(id, Integer(Len(m.models) + 1))
    IN [manager |-> [m EXCEPT !.models = Append(m.models, item)],
        returns |-> item]

deleteItem(m, id) ==
    [m EXCEPT !.models = filter(m.models, {item \in Range(m.models) : item.id # id})]

getModelById(m, id) ==
    LET found == {i \in 1..Len(m.models) : m.models[i].id = id}
    IN IF found = {} THEN Null
       ELSE m.models[CHOOSE i \in found : \A j \in found : i <= j]

\* deleteModelById without the update of _defaultModel
deleteModelById_activeOnly(m, id) ==
    LET models == filter(m.models, {x \in Range(m.models) : x.id # id})
        active == IF OptionalIdIs(m.activeModel, id)
                  THEN FirstOrNull(models) ELSE m.activeModel
    IN [models |-> models, activeModel |-> active, defaultModel |-> m.defaultModel]

deleteModelById(m, id) ==
    LET models == filter(m.models, {x \in Range(m.models) : x.id # id})
        active == IF OptionalIdIs(m.activeModel, id)
                  THEN FirstOrNull(models) ELSE m.activeModel
        default == IF OptionalIdIs(m.defaultModel, id)
                   THEN FirstOrNull(models) ELSE m.defaultModel
    IN [models |-> models, activeModel |-> active, defaultModel |-> default]

deleteAllModels(m) ==
    [m EXCEPT !.models = <<>>, !.activeModel = Null]

setActiveModelById(m, id) ==
    [m EXCEPT !.activeModel = getModelById(m, id)]

setDefaultModel(m, id) ==
    [m EXCEPT !.defaultModel =
        IF OptionalIdIs(m.defaultModel, id) THEN Null ELSE getModelById(m, id)]

(***************************************************************************)
(* Inputs                                                                  *)
(***************************************************************************)
StringValues == {Str(u) : u \in Strings}

\* the string "3"
NumericString == Str(<<51>>)

\* what a caller may pass where a string is expected
StringArgs == StringValues \cup {Integer(1), Null, Undefined, Obj}

\* the integers and halves of magnitude at most MaxNum, NaN and -0
Numbers ==
    {Rat(n, d) : n \in -MaxNum..MaxNum, d \in {1, 2}} \cup {NaN, NegZero}

\* what a caller may pass where a number is expected
NumberArgs == Numbers \cup {NumericString, Str(<<>>), Null, Undefined, Obj}

\* what a caller may pass as the shift factor; a missing argument is
\* undefined
ShiftArgs ==
    {Integer(k) : k \in -MaxShift..MaxShift}
    \cup {NegZero, Rat(6, 5), NaN, NumericString, Null, Undefined, Obj}

\* the elements of the arrays: integers and halves of magnitude at most
\* MaxElem, and NaN
ArrayElems ==
    {Rat(n, d) : n \in -MaxElem..MaxElem, d \in {1, 2}} \cup {NaN}

ArrayValues ==
    {Arr(elems) : elems \in UNION {[1..n -> ArrayElems] : n \in 0..MaxArrayLen}}

\* what a caller may pass where an array is expected
ArrayArgs ==
    ArrayValues
    \cup {Str(<<>>), NumericString, Obj, Null, Undefined, Integer(1)}

(***************************************************************************)
(* The calls: a caller picks an exported function and its arguments, and   *)
(* the call then runs to its return or its throw.                          *)
(***************************************************************************)
\* no interleaved invocation
NoTasks == tasks = <<>>

\* the manager singleton as constructed
ManagerIdle == manager = NewManager /\ nextId = 1 /\ storage = Null

\* a JavaScript object without properties
EmptyObject == [key \in {} |-> Null]

\* a DialogView as constructed, on a dialog element without form controls
NewDialog ==
    [open |-> FALSE, context |-> EmptyObject,
     onSubmit |-> "null", onCancel |-> "null"]
NothingObserved == [lastOpen |-> EmptyObject, delivered |-> <<>>]
DialogIdle ==
    dialog = NewDialog /\ controls = <<>> /\ observed = NothingObserved

\* null in _cycleTimer; the ids setInterval returns are 1, 2, ...
NullTimer == 0

\* the fields the constructor of CarouselView sets, before it starts the
\* auto-cycle
NewCarousel(slides, loop, autoCycle) ==
    [slideIndex |-> 0, slides |-> slides, loop |-> loop,
     autoCycle |-> autoCycle, cycleTimer |-> NullTimer]

NoTimers == [scheduled |-> {}, created |-> 0]

\* a carousel of one slide without auto-cycle, and no timer
CarouselIdle ==
    carousel = NewCarousel(1, FALSE, FALSE) /\ timers = NoTimers

Init ==
    /\ outcome = NoCall
    /\ NoTasks
    /\ ManagerIdle
    /\ DialogIdle
    /\ CarouselIdle
    /\ \/ \E string \in StringArgs :
             /\ fn \in {"capitalize", "reverseString"}
             /\ args = <<string>>
       \/ \E num1 \in NumberArgs, num2 \in NumberArgs :
             /\ fn \in {"add", "subtract", "divide", "multiply"}
             /\ args = <<num1, num2>>
       \/ \E string \in StringArgs, shiftFactor \in ShiftArgs :
             /\ fn = "caesarCipher"
             /\ args = <<string, shiftFactor>>
       \/ \E arr \in ArrayArgs :
             /\ fn = "analyzeArray"
             /\ args = <<arr>>

Pending(name) == fn = name /\ outcome = NoCall

CallCapitalize ==
    /\ Pending("capitalize")
    /\ outcome' = capitalize(args[1])
    /\ UNCHANGED <<fn, args, nonCallVars>>

CallReverseString ==
    /\ Pending("reverseString")
    /\ outcome' = reverseString(args[1])
    /\ UNCHANGED <<fn, args, nonCallVars>>

CallAdd ==
    /\ Pending("add")
    /\ outcome' = add(args[1], args[2])
    /\ UNCHANGED <<fn, args, nonCallVars>>

CallSubtract ==
    /\ Pending("subtract")
    /\ outcome' = subtract(args[1], args[2])
    /\ UNCHANGED <<fn, args, nonCallVars>>

CallDivide ==
    /\ Pending("divide")
    /\ outcome' = divide(args[1], args[2])
    /\ UNCHANGED <<fn, args, nonCallVars>>

CallMultiply ==
    /\ Pending("multiply")
    /\ outcome' = multiply(args[1], args[2])
    /\ UNCHANGED <<fn, args, nonCallVars>>

CallCaesarCipher ==
    /\ Pending("caesarCipher")
    /\ outcome' = caesarCipher(args[1], args[2])
    /\ UNCHANGED <<fn, args, nonCallVars>>

CallAnalyzeArray ==
    /\ Pending("analyzeArray")
    /\ outcome' = analyzeArray(args[1])
    /\ UNCHANGED <<fn, args, nonCallVars>>

Next ==
    \/ CallCapitalize
    \/ CallReverseString
    \/ CallAdd
    \/ CallSubtract
    \/ CallDivide
    \/ CallMultiply
    \/ CallCaesarCipher
    \/ CallAnalyzeArray

Spec == Init /\ [][Next]_vars

(***************************************************************************)
(* Interleaved invocations of reverseString and caesarCipher: every        *)
(* invocation has its own parameters and locals (i is the loop index of    *)
(* reverseString or the position of the string iterator of caesarCipher,   *)
(* acc the string built so far), and one step is the entry with its        *)
(* checks, one loop iteration, or the return.  overlapped records that     *)
(* the invocation ran a loop iteration while another one was in its loop,  *)
(* and iterations counts the loop iterations the invocation has run.       *)
(***************************************************************************)
TaskIds == {1, 2}

TaskAlphabet == {44, 90, 97}
TaskStrings == UNION {[1..n -> TaskAlphabet] : n \in 0..MaxTaskLen}
TaskShifts == {Integer(-1), Integer(27), Rat(6, 5)}

NewTask(name, string, shiftFactor) ==
    [fn |-> name, string |-> string, shiftFactor |-> shiftFactor,
     pc |-> "entry", i |-> 0, acc |-> <<>>, result |-> NoCall,
     overlapped |-> FALSE, iterations |-> 0]

TaskCalls ==
    {NewTask("reverseString", string, Undefined) :
        string \in {Str(u) : u \in TaskStrings} \cup {Null}}
    \cup {NewTask("caesarCipher", string, shiftFactor) :
        string \in {Str(u) : u \in TaskStrings} \cup {Null},
        shiftFactor \in TaskShifts}

\* another invocation is inside its loop
OtherInLoop(ts, id) == \E o \in DOMAIN ts : o # id /\ ts[o].pc = "loop"

\* reverseString with the buffer reversed shared by all invocations
reverseStringStep_sharedBuffer(ts, id) ==
    LET t == ts[id]
    IN IF t.pc = "entry"
       THEN IF TypeOf(t.string) # "string"
            THEN [ts EXCEPT ![id].pc = "done", ![id].result = Throw("TypeError")]
            ELSE [o \in DOMAIN ts |->
                    IF o = id
                    THEN [t EXCEPT !.pc = "loop", !.acc = <<>>,
                                   !.i = Len(t.string.s) - 1]
                    ELSE [ts[o] EXCEPT !.acc = <<>>]]
       ELSE IF t.i >= 0
            THEN [o \in DOMAIN ts |->
                    IF o = id
                    THEN [t EXCEPT !.acc = t.acc \o CharAt(t.string.s, t.i),
                                   !.i = t.i - 1,
                                   !.overlapped = t.overlapped \/ OtherInLoop(ts, id)]
                    ELSE [ts[o] EXCEPT !.acc = t.acc \o CharAt(t.string.s, t.i)]]
            ELSE [ts EXCEPT ![id].pc = "done", ![id].result = Return(Str(t.acc))]

\* reverseString with the loop condition i > 0
reverseStringStep_stopsAtOne(ts, id) ==
    LET t == ts[id]
    IN IF t.pc = "entry"
       THEN IF TypeOf(t.string) # "string"
            THEN [ts EXCEPT ![id].pc = "done", ![id].result = Throw("TypeError")]
            ELSE [ts EXCEPT ![id].pc = "loop", ![id].acc = <<>>,
                            ![id].i = Len(t.string.s) - 1]
       ELSE IF t.i > 0
            THEN [ts EXCEPT ![id].acc = t.acc \o CharAt(t.string.s, t.i),
                            ![id].i = t.i - 1,
                            ![id].iterations = t.iterations + 1]
            ELSE [ts EXCEPT ![id].pc = "done", ![id].result = Return(Str(t.acc))]

\* one step of invocation id of reverseString
reverseStringStep(ts, id) ==
    LET t == ts[id]
    IN IF t.pc = "entry"
       THEN IF TypeOf(t.string) # "string"
            THEN [ts EXCEPT ![id].pc = "done", ![id].result = Throw("TypeError")]
            ELSE [ts EXCEPT ![id].pc = "loop", ![id].acc = <<>>,
                            ![id].i = Len(t.string.s) - 1]
       ELSE IF t.i >= 0
            THEN [ts EXCEPT ![id].acc = t.acc \o CharAt(t.string.s, t.i),
                            ![id].i = t.i - 1,
                            ![id].iterations = t.iterations + 1,
                            ![id].overlapped = t.overlapped \/ OtherInLoop(ts, id)]
            ELSE [ts EXCEPT ![id].pc = "done", ![id].result = Return(Str(t.acc))]

\* caesarCipher with the integer check after the loop
caesarCipherStep_integerCheckLast(ts, id) ==
    LET t == ts[id]
    IN IF t.pc = "entry"
       THEN IF TypeOf(t.string) # "string"
            THEN [ts EXCEPT ![id].pc = "done", ![id].result = Throw("TypeError")]
            ELSE [ts EXCEPT ![id].pc = "loop", ![id].acc = <<>>, ![id].i = 0]
       ELSE IF t.i < Len(t.string.s)
            THEN LET char == CodePointAt(t.string.s, t.i)
                 IN [ts EXCEPT ![id].acc = t.acc \o char,
                               ![id].i = t.i + Len(char),
                               ![id].iterations = t.iterations + 1]
            ELSE IF ~NumberIsInteger(t.shiftFactor)
            THEN [ts EXCEPT ![id].pc = "done", ![id].result = Throw("TypeError")]
            ELSE [ts EXCEPT ![id].pc = "done",
                            ![id].result = caesarCipher(t.string, t.shiftFactor)]

\* one step of invocation id of caesarCipher
caesarCipherStep(ts, id) ==
    LET t == ts[id]
    IN IF t.pc = "entry"
       THEN IF TypeOf(t.string) # "string"
            THEN [ts EXCEPT ![id].pc = "done", ![id].result = Throw("TypeError")]
            ELSE IF ~NumberIsInteger(t.shiftFactor)
            THEN [ts EXCEPT ![id].pc = "done", ![id].result = Throw("TypeError")]
            ELSE [ts EXCEPT ![id].pc = "loop", ![id].acc = <<>>, ![id].i = 0]
       ELSE IF t.i < Len(t.string.s)
            THEN LET char == CodePointAt(t.string.s, t.i)
                 IN [ts EXCEPT ![id].acc = t.acc \o shiftCharacter(char, t.shiftFactor.num),
                               ![id].i = t.i + Len(char),
                               ![id].iterations = t.iterations + 1,
                               ![id].overlapped = t.overlapped \/ OtherInLoop(ts, id)]
            ELSE [ts EXCEPT ![id].pc = "done", ![id].result = Return(Str(t.acc))]

\* no pending call of the other specification
NoSingleCall == fn = "none" /\ args = <<>> /\ outcome = NoCall

InitInterleaved ==
    /\ tasks \in [TaskIds -> TaskCalls]
    /\ NoSingleCall
    /\ ManagerIdle
    /\ DialogIdle
    /\ CarouselIdle

StepReverseString ==
    \E id \in DOMAIN tasks :
        /\ tasks[id].fn = "reverseString"
        /\ tasks[id].pc # "done"
        /\ tasks' = reverseStringStep(tasks, id)
        /\ UNCHANGED nonTaskVars

StepCaesarCipher ==
    \E id \in DOMAIN tasks :
        /\ tasks[id].fn = "caesarCipher"
        /\ tasks[id].pc # "done"
        /\ tasks' = caesarCipherStep(tasks, id)
        /\ UNCHANGED nonTaskVars

NextInterleaved ==
    \/ StepReverseString
    \/ StepCaesarCipher

SpecInterleaved == InitInterleaved /\ [][NextInterleaved]_vars

(***************************************************************************)
(* One invocation of reverseString, caesarCipher or analyzeArray run step  *)
(* by step.  The first argument of the invocation is in the field string;  *)
(* in analyzeArray acc is the accumulator a of the reduction and i the     *)
(* index of the next element.                                              *)
(***************************************************************************)
\* one step of invocation id of analyzeArray
analyzeArrayStep(ts, id) ==
    LET t == ts[id]
    IN IF t.pc = "entry"
       THEN IF ~ArrayIsArray(t.string)
            THEN [ts EXCEPT ![id].pc = "done", ![id].result = Throw("TypeError")]
            ELSE IF Len(t.string.s) = 0
            THEN [ts EXCEPT ![id].pc = "done",
                            ![id].result = Return([average |-> Null, min |-> Null,
                                                   max |-> Null, length |-> Integer(0)])]
            ELSE [ts EXCEPT ![id].pc = "loop", ![id].acc = t.string.s[1], ![id].i = 1]
       ELSE IF t.i < Len(t.string.s)
            THEN [ts EXCEPT ![id].acc = Plus(t.acc, t.string.s[t.i + 1]),
                            ![id].i = t.i + 1,
                            ![id].iterations = t.iterations + 1]
            ELSE [ts EXCEPT ![id].pc = "done",
                            ![id].result =
                                Return([average |-> Quotient(t.acc, Integer(Len(t.string.s))),
                                        min |-> MathMin(t.string.s, 0, Num(1, 0)),
                                        max |-> MathMax(t.string.s, 0, Num(-1, 0)),
                                        length |-> Integer(Len(t.string.s))])]

StepIds == {1}

\* strings with letters, a comma and the two halves of a surrogate pair
StepAlphabet == {44, 90, 97, 55357, 56832}
StepStrings == UNION {[1..n -> StepAlphabet] : n \in 0..MaxTaskLen}

StepCalls ==
    {NewTask("reverseString", string, Undefined) :
        string \in {Str(u) : u \in StepStrings} \cup {Null, Integer(1)}}
    \cup {NewTask("caesarCipher", string, shiftFactor) :
        string \in {Str(u) : u \in StepStrings} \cup {Null},
        shiftFactor \in TaskShifts \cup {Undefined, NumericString}}
    \cup {NewTask("analyzeArray", arr, Undefined) : arr \in ArrayArgs}

InitSteps ==
    /\ tasks \in [StepIds -> StepCalls]
    /\ NoSingleCall
    /\ ManagerIdle
    /\ DialogIdle
    /\ CarouselIdle

StepAnalyzeArray ==
    \E id \in DOMAIN tasks :
        /\ tasks[id].fn = "analyzeArray"
        /\ tasks[id].pc # "done"
        /\ tasks' = analyzeArrayStep(tasks, id)
        /\ UNCHANGED nonTaskVars

NextSteps ==
    \/ StepReverseString
    \/ StepCaesarCipher
    \/ StepAnalyzeArray

SpecSteps == InitSteps /\ [][NextSteps]_vars

\* an invocation that has been called runs on until it returns or throws
SpecStepsFair == SpecSteps /\ WF_vars(NextSteps)

(***************************************************************************)
(* The Manager singleton: every action is one call of a method, recorded   *)
(* in fn, args and outcome.                                                *)
(***************************************************************************)
\* Storage.save(data) keeps data and Storage.load() returns the data of the
\* latest save, or null when nothing was saved
StorageSave(data) == data

StorageLoad(stored) == stored

\* saveToStorage(): what is stored after the call, and how the call ends.
\* A Model has no method getId, so the call throws when there is a default
\* model, before Storage.save is called
saveToStorage(m, stored) ==
    IF m.defaultModel # Null
    THEN [storage |-> stored, outcome |-> Throw("TypeError")]
    ELSE [storage |->
              StorageSave([defaultModelId |-> Null,
                           models |-> [i \in DOMAIN m.models |->
                                          [id |-> m.models[i].id,
                                           name |-> m.models[i].name,
                                           todos |-> [j \in DOMAIN m.models[i].items |->
                                                         m.models[i].items[j]]]]]),
          outcome |-> Return(Undefined)]

\* loadFromStorage(): the manager after the call, and how the call ends.
\* data.projects is undefined in the data saveToStorage writes, and a Model
\* has no method setId, so the map throws before _models is assigned
loadFromStorage(m, stored) ==
    LET data == StorageLoad(stored)
    IN IF data = Null
       THEN [manager |-> m, outcome |-> Return(Undefined)]
       ELSE IF "projects" \notin DOMAIN data
       THEN [manager |-> m, outcome |-> Throw("TypeError")]
       ELSE IF data.projects # <<>>
       THEN [manager |-> m, outcome |-> Throw("TypeError")]
       ELSE [manager |-> [models |-> <<>>, activeModel |-> Undefined,
                          defaultModel |-> Null],
             outcome |-> Return(Undefined)]

\* names a caller gives to createItem: "A" and "az"
ModelNames == {Str(<<65>>), Str(<<97, 122>>)}

\* ids a caller passes: those handed out so far, one that never was, and
\* none
KnownIds == {NoId} \cup 1..MaxCreated + 1

InitManager ==
    /\ ManagerIdle
    /\ NoSingleCall
    /\ NoTasks
    /\ DialogIdle
    /\ CarouselIdle

Called(name, arguments, value) ==
    /\ fn' = name
    /\ args' = arguments
    /\ outcome' = Return(value)

CreateItem ==
    \E name \in ModelNames :
        /\ nextId <= MaxCreated
        /\ LET call == createItem(manager, nextId, name)
           IN /\ manager' = call.manager
              /\ Called("createItem", <<name>>, call.returns)
        /\ nextId' = nextId + 1
        /\ UNCHANGED <<storage, nonMgrVars>>

DeleteItem ==
    \E id \in KnownIds :
        /\ manager' = deleteItem(manager, id)
        /\ Called("deleteItem", <<id>>, Undefined)
        /\ UNCHANGED <<nextId, storage, nonMgrVars>>

DeleteModelById ==
    \E id \in KnownIds :
        /\ manager' = deleteModelById(manager, id)
        /\ Called("deleteModelById", <<id>>, Undefined)
        /\ UNCHANGED <<nextId, storage, nonMgrVars>>

DeleteAllModels ==
    /\ manager' = deleteAllModels(manager)
    /\ Called("deleteAllModels", <<>>, Undefined)
    /\ UNCHANGED <<nextId, storage, nonMgrVars>>

SetActiveModelById ==
    \E id \in KnownIds :
        /\ manager' = setActiveModelById(manager, id)
        /\ Called("setActiveModelById", <<id>>, Undefined)
        /\ UNCHANGED <<nextId, storage, nonMgrVars>>

SetDefaultModel ==
    \E id \in KnownIds :
        /\ manager' = setDefaultModel(manager, id)
        /\ Called("setDefaultModel", <<id>>, Undefined)
        /\ UNCHANGED <<nextId, storage, nonMgrVars>>

SaveToStorage ==
    /\ fn' = "saveToStorage"
    /\ args' = <<>>
    /\ LET call == saveToStorage(manager, storage)
       IN /\ storage' = call.storage
          /\ outcome' = call.outcome
    /\ UNCHANGED <<manager, nextId, nonMgrVars>>

LoadFromStorage ==
    /\ fn' = "loadFromStorage"
    /\ args' = <<>>
    /\ LET call == loadFromStorage(manager, storage)
       IN /\ manager' = call.manager
          /\ outcome' = call.outcome
    /\ UNCHANGED <<nextId, storage, nonMgrVars>>

\* the page is loaded again: the module makes a new manager, and what
\* Storage keeps stays
Reload ==
    /\ fn' = "reload"
    /\ args' = <<>>
    /\ outcome' = Return(Undefined)
    /\ manager' = NewManager
    /\ UNCHANGED <<nextId, storage, nonMgrVars>>

NextManager ==
    \/ CreateItem
    \/ DeleteItem
    \/ DeleteModelById
    \/ DeleteAllModels
    \/ SetActiveModelById
    \/ SetDefaultModel
    \/ SaveToStorage
    \/ LoadFromStorage
    \/ Reload

SpecManager == InitManager /\ [][NextManager]_vars

(***************************************************************************)
(* DialogView.  A JavaScript object is a function from its keys to their   *)
(* values.  The methods work on w, the DialogView (w.dialog) together with *)
(* what its callers observe (w.observed).  A callback is "null" when none  *)
(* is registered, and else stands for what the registered function does.   *)
(***************************************************************************)
\* obj[key] = value
Assign(obj, key, value) ==
    [k \in DOMAIN obj \cup {key} |-> IF k = key THEN value ELSE obj[k]]

\* { ...a, ...b }
Spread(a, b) ==
    [k \in DOMAIN a \cup DOMAIN b |-> IF k \in DOMAIN b THEN b[k] ELSE a[k]]

\* open(context)
open(w, context) ==
    [dialog |-> [w.dialog EXCEPT !.context = context, !.open = TRUE],
     observed |-> [w.observed EXCEPT !.lastOpen = context]]

\* close() leaving _context as it is
close_keepContext(w) ==
    [w EXCEPT !.dialog.open = FALSE]

\* close()
close(w) ==
    [w EXCEPT !.dialog.open = FALSE, !.dialog.context = EmptyObject]

setOnSubmit(w, callback) == [w EXCEPT !.dialog.onSubmit = callback]

setOnCancel(w, callback) == [w EXCEPT !.dialog.onCancel = callback]

\* _collectFormData(): elements is the list querySelectorAll returns, in
\* document order; a control without a name attribute has the name ""
RECURSIVE collectLoop(_, _)
collectLoop(elements, payload) ==
    IF elements = <<>> THEN payload
    ELSE LET el == Head(elements)
         IN collectLoop(Tail(elements),
                        IF el.name # "" THEN Assign(payload, el.name, el.value)
                        ELSE payload)

collectFormData(elements) == collectLoop(elements, EmptyObject)

\* the object a callback passes to open() when it reopens the dialog
ReopenContext == [k \in {"id"} |-> "c3"]

\* what the registered functions do with the DialogView when they are
\* called: nothing, close it, open it again, or throw
Callbacks == {"returns", "closes", "reopens", "throws"}

\* the call callback(payload): the state after it and whether it threw
runCallback(w, callback, name, payload) ==
    LET called == [w EXCEPT !.observed.delivered =
                      Append(w.observed.delivered,
                             [callback |-> name, payload |-> payload,
                              open |-> w.dialog.open,
                              lastOpen |-> w.observed.lastOpen])]
    IN CASE callback = "returns" -> [w |-> called, thrown |-> FALSE]
         [] callback = "closes" -> [w |-> close(called), thrown |-> FALSE]
         [] callback = "reopens" -> [w |-> open(called, ReopenContext), thrown |-> FALSE]
         [] callback = "throws" -> [w |-> called, thrown |-> TRUE]

\* the payload with the context spread after the form data
submitPayload_contextLast(w, elements) ==
    Spread(collectFormData(elements), w.dialog.context)

\* { ...this._context, ...formData }
submitPayload(w, elements) ==
    Spread(w.dialog.context, collectFormData(elements))

\* the click listener of the submit button: the state after it and how the
\* listener ended
submitClick(w, elements) ==
    LET payload == submitPayload(w, elements)
    IN IF w.dialog.onSubmit = "null"
       THEN [w |-> close(w), outcome |-> Return(Undefined)]
       ELSE LET call == runCallback(w, w.dialog.onSubmit, "submit", payload)
            IN IF call.thrown
               THEN [w |-> call.w, outcome |-> Throw("Error")]
               ELSE [w |-> close(call.w), outcome |-> Return(Undefined)]

\* the click listener of the cancel button
cancelClick(w) ==
    IF w.dialog.onCancel = "null"
    THEN [w |-> close(w), outcome |-> Return(Undefined)]
    ELSE LET call == runCallback(w, w.dialog.onCancel, "cancel", EmptyObject)
         IN IF call.thrown
            THEN [w |-> call.w, outcome |-> Throw("Error")]
            ELSE [w |-> close(call.w), outcome |-> Return(Undefined)]

\* the contexts the callers pass to open(): objects with the keys id, title
Contexts ==
    {[k \in keys |-> IF k = "id" THEN "c1" ELSE "c2"] :
        keys \in SUBSET {"id", "title"}}

\* the form controls: named title or note, or without a name
FormControls ==
    {[name |-> n, value |-> v] : n \in {"title", "note"}, v \in {"v1", "v2"}}
    \cup {[name |-> "", value |-> "v1"]}

InitDialog ==
    /\ dialog = NewDialog
    /\ observed = NothingObserved
    /\ controls \in UNION {[1..n -> FormControls] : n \in 0..MaxControls}
    /\ NoSingleCall
    /\ NoTasks
    /\ ManagerIdle
    /\ CarouselIdle

World == [dialog |-> dialog, observed |-> observed]

\* a method call or a listener on the latest click left the state w
DialogEvent(arguments, w, result) ==
    /\ dialog' = w.dialog
    /\ observed' = w.observed
    /\ args' = arguments
    /\ outcome' = result
    /\ UNCHANGED <<controls, nonDlgVars>>

\* the calls a click makes to the callbacks are counted from the click on
AtClick == [World EXCEPT !.observed.delivered = <<>>]

Open ==
    \E context \in Contexts :
        /\ fn' = "open"
        /\ DialogEvent(<<context>>, open(World, context), Return(Undefined))

Close ==
    /\ fn' = "close"
    /\ DialogEvent(<<>>, close(World), Return(Undefined))

SetOnSubmit ==
    \E callback \in Callbacks :
        /\ fn' = "setOnSubmit"
        /\ DialogEvent(<<callback>>, setOnSubmit(World, callback), Return(Undefined))

SetOnCancel ==
    \E callback \in Callbacks :
        /\ fn' = "setOnCancel"
        /\ DialogEvent(<<callback>>, setOnCancel(World, callback), Return(Undefined))

\* the user clicks the submit button of the open dialog
SubmitClick ==
    /\ dialog.open
    /\ fn' = "submitClick"
    /\ LET click == submitClick(AtClick, controls)
       IN DialogEvent(<<>>, click.w, click.outcome)

\* the user clicks the cancel button of the open dialog
CancelClick ==
    /\ dialog.open
    /\ fn' = "cancelClick"
    /\ LET click == cancelClick(AtClick)
       IN DialogEvent(<<>>, click.w, click.outcome)

NextDialog ==
    \/ Open
    \/ Close
    \/ SetOnSubmit
    \/ SetOnCancel
    \/ SubmitClick
    \/ CancelClick

SpecDialog == InitDialog /\ [][NextDialog]_vars

(***************************************************************************)
(* CarouselView.  The methods work on w, the CarouselView (w.carousel)     *)
(* together with the interval timers of the window (w.timers).             *)
(***************************************************************************)
\* startAutoCycle() without the check of _cycleTimer
startAutoCycle_noGuard(w) ==
    LET id == w.timers.created + 1
    IN [carousel |-> [w.carousel EXCEPT !.cycleTimer = id],
        timers |-> [scheduled |-> w.timers.scheduled \cup {id}, created |-> id]]

\* startAutoCycle(); setInterval returns the next id
startAutoCycle(w) ==
    IF w.carousel.cycleTimer # NullTimer THEN w
    ELSE LET id == w.timers.created + 1
         IN [carousel |-> [w.carousel EXCEPT !.cycleTimer = id],
             timers |-> [scheduled |-> w.timers.scheduled \cup {id}, created |-> id]]

\* stopAutoCycle(); clearInterval(null) clears nothing
stopAutoCycle(w) ==
    [carousel |-> [w.carousel EXCEPT !.cycleTimer = NullTimer],
     timers |-> [w.timers EXCEPT !.scheduled = @ \ {w.carousel.cycleTimer}]]

toggleAutoCycle(w, onOrOff) ==
    IF onOrOff THEN startAutoCycle(w) ELSE stopAutoCycle(w)

resetAutoCycle(w) ==
    IF ~w.carousel.autoCycle THEN w
    ELSE startAutoCycle(stopAutoCycle(w))

\* prevSlide() wrapping at index 0 whatever _loop is
prevSlide_wrapAlways(w) ==
    IF w.carousel.slideIndex = 0
    THEN resetAutoCycle([w EXCEPT !.carousel.slideIndex = w.carousel.slides - 1])
    ELSE resetAutoCycle([w EXCEPT !.carousel.slideIndex = @ - 1])

prevSlide(w) ==
    IF w.carousel.slideIndex = 0
    THEN IF w.carousel.loop
         THEN resetAutoCycle([w EXCEPT !.carousel.slideIndex = w.carousel.slides - 1])
         ELSE w
    ELSE resetAutoCycle([w EXCEPT !.carousel.slideIndex = @ - 1])

nextSlide(w) ==
    IF w.carousel.slideIndex = w.carousel.slides - 1
    THEN IF w.carousel.loop
         THEN resetAutoCycle([w EXCEPT !.carousel.slideIndex = 0])
         ELSE w
    ELSE resetAutoCycle([w EXCEPT !.carousel.slideIndex = @ + 1])

\* the click listener of the slide button at index
slideButtonClick(w, index) ==
    resetAutoCycle([w EXCEPT !.carousel.slideIndex = index])

\* new CarouselView({..., autoCycle, loop}) on a container of 1 or more
\* slides
InitCarousel ==
    /\ \E slides \in 1..MaxSlides, loop \in BOOLEAN, autoCycle \in BOOLEAN :
          LET w == [carousel |-> NewCarousel(slides, loop, autoCycle),
                    timers |-> NoTimers]
              constructed == IF autoCycle THEN startAutoCycle(w) ELSE w
          IN carousel = constructed.carousel /\ timers = constructed.timers
    /\ NoSingleCall
    /\ NoTasks
    /\ ManagerIdle
    /\ DialogIdle

CarouselWorld == [carousel |-> carousel, timers |-> timers]

\* a method call, a click or a timer tick left the state w
CarouselEvent(arguments, w) ==
    /\ w.timers.created <= MaxTimers
    /\ carousel' = w.carousel
    /\ timers' = w.timers
    /\ args' = arguments
    /\ outcome' = Return(Undefined)
    /\ UNCHANGED nonCrsVars

\* prevSlide(), or a click on the left button
PrevSlide ==
    /\ fn' = "prevSlide"
    /\ CarouselEvent(<<>>, prevSlide(CarouselWorld))

\* nextSlide(), or a click on the right button
NextSlide ==
    /\ fn' = "nextSlide"
    /\ CarouselEvent(<<>>, nextSlide(CarouselWorld))

SlideButtonClick ==
    \E index \in 0..carousel.slides - 1 :
        /\ fn' = "slideButtonClick"
        /\ CarouselEvent(<<index>>, slideButtonClick(CarouselWorld, index))

\* a scheduled interval fires: its callback calls nextSlide()
TimerTick ==
    \E id \in timers.scheduled :
        /\ fn' = "timerTick"
        /\ CarouselEvent(<<id>>, nextSlide(CarouselWorld))

StartAutoCycle ==
    /\ fn' = "startAutoCycle"
    /\ CarouselEvent(<<>>, startAutoCycle(CarouselWorld))

StopAutoCycle ==
    /\ fn' = "stopAutoCycle"
    /\ CarouselEvent(<<>>, stopAutoCycle(CarouselWorld))

ToggleAutoCycle ==
    \E onOrOff \in BOOLEAN :
        /\ fn' = "toggleAutoCycle"
        /\ CarouselEvent(<<onOrOff>>, toggleAutoCycle(CarouselWorld, onOrOff))

NextCarousel ==
    \/ PrevSlide
    \/ NextSlide
    \/ SlideButtonClick
    \/ TimerTick
    \/ StartAutoCycle
    \/ StopAutoCycle
    \/ ToggleAutoCycle

SpecCarousel == InitCarousel /\ [][NextCarousel]_vars

(***************************************************************************)
(* Properties                                                              *)
(***************************************************************************)
Done(name) == fn = name /\ outcome # NoCall

IsString(v) == v.t = "string"
\* a number with an integral value (either zero included)
IsInteger(v) == v.t = "number" /\ v.den \in {1, -1}

\* the letter at alphabet index (index + k) mod 26 in the case of unit c,
\* or c itself when c is not a letter A-Z or a-z
ShiftedLetter(c, k) ==
    IF c \in 65..90 THEN 65 + ((c - 65 + k) % 26)
    ELSE IF c \in 97..122 THEN 97 + ((c - 97 + k) % 26)
    ELSE c

\* C1: caesarCipher(s, k), for a string s and an integer k, returns a string
\* of the same length whose unit at each position is the letter of the same
\* case at index (index + k) mod 26, or the unit of s when it is no letter.
C1_CaesarShift ==
    (Done("caesarCipher") /\ IsString(args[1]) /\ IsInteger(args[2])) =>
        /\ outcome.kind = "return"
        /\ IsString(outcome.val)
        /\ Len(outcome.val.s) = Len(args[1].s)
        /\ \A i \in 1..Len(args[1].s) :
               outcome.val.s[i] = ShiftedLetter(args[1].s[i], args[2].num)

\* "Zz," shifted by -27 is "Yy,"
C1_Witness ==
    /\ Done("caesarCipher")
    /\ args = <<Str(<<90, 122, 44>>), Integer(-27)>>
    /\ outcome = Return(Str(<<89, 121, 44>>))

\* C2: caesarCipher(caesarCipher(s, k), -k) = s, and shifting by k and then
\* by 26 - k returns s, for every string s and integer k.
C2_CaesarRoundTrip ==
    (Done("caesarCipher") /\ IsString(args[1]) /\ IsInteger(args[2])) =>
        /\ outcome.kind = "return"
        /\ caesarCipher(outcome.val, Integer(-args[2].num)) = Return(args[1])
        /\ caesarCipher(outcome.val, Integer(26 - args[2].num)) = Return(args[1])

\* "aZ" shifted by 28 is "cB", which the shifts -28 and -2 bring back
C2_Witness ==
    /\ Done("caesarCipher")
    /\ args = <<Str(<<97, 90>>), Integer(28)>>
    /\ outcome = Return(Str(<<99, 66>>))
    /\ caesarCipher(outcome.val, Integer(-28)) = Return(args[1])

\* C3: caesarCipher(s, k + 26) = caesarCipher(s, k), and a shift by 0 or by
\* any multiple of 26 returns s unchanged.
C3_CaesarPeriod26 ==
    (Done("caesarCipher") /\ IsString(args[1]) /\ IsInteger(args[2])) =>
        /\ caesarCipher(args[1], Integer(args[2].num + 26)) = outcome
        /\ (args[2].num % 26 = 0 => outcome = Return(args[1]))

\* "Az" shifted by -26 is "Az"
C3_Witness ==
    /\ Done("caesarCipher")
    /\ args = <<Str(<<65, 122>>), Integer(-26)>>
    /\ outcome = Return(Str(<<65, 122>>))

\* C4: caesarCipher throws a TypeError and returns nothing when its first
\* argument is not a string or its second argument is not an integer.
C4_CaesarTypeError ==
    (Done("caesarCipher") /\ (~IsString(args[1]) \/ ~IsInteger(args[2]))) =>
        outcome = Throw("TypeError")

\* caesarCipher("a", 1.2) throws
C4_Witness ==
    /\ Done("caesarCipher")
    /\ args = <<Str(<<97>>), Rat(6, 5)>>
    /\ outcome = Throw("TypeError")

\* C5, as stated: capitalize(s) has the length of s, its first unit is the
\* upper-cased first unit of s and its other units are those of s;
\* capitalize("") is "".
C5_Original ==
    (Done("capitalize") /\ IsString(args[1])) =>
        /\ outcome.kind = "return"
        /\ IsString(outcome.val)
        /\ Len(outcome.val.s) = Len(args[1].s)
        /\ args[1].s # <<>> =>
               /\ <<Head(outcome.val.s)>> = toUpperCase(<<Head(args[1].s)>>)
               /\ Tail(outcome.val.s) = Tail(args[1].s)

\* C5, amended: capitalize(s) is the upper-cased form of the first unit of s
\* followed by exactly the units of s after its first; the length is that
\* of s whenever that upper-cased form is one unit long (U+00DF becomes the
\* two units "SS"), and a-z become A-Z; capitalize("") is "".
C5_Capitalize ==
    (Done("capitalize") /\ IsString(args[1])) =>
        /\ outcome.kind = "return"
        /\ IsString(outcome.val)
        /\ LET s == args[1].s
               r == outcome.val.s
               upper == IF s = <<>> THEN <<>> ELSE toUpperCase(<<Head(s)>>)
           IN /\ s = <<>> => r = <<>>
              /\ s # <<>> =>
                    /\ Len(r) = Len(upper) + Len(s) - 1
                    /\ SubSeq(r, 1, Len(upper)) = upper
                    /\ SubSeq(r, Len(upper) + 1, Len(r)) = Tail(s)
                    /\ Len(upper) = 1 => Len(r) = Len(s)
                    /\ Head(s) \in 97..122 => Head(r) = Head(s) - 32
                    /\ Head(s) \in 65..90 => Head(r) = Head(s)

\* capitalize of U+00DF "a" is "SSa", one unit longer
C5_Witness ==
    /\ Done("capitalize")
    /\ args = <<Str(<<223, 97>>)>>
    /\ outcome = Return(Str(<<83, 83, 97>>))

\* C6: reverseString(s) has the length of s and its code unit at position i
\* is the code unit of s at position length-1-i; the empty string and every
\* one-unit string are returned unchanged.
C6_ReverseByCodeUnit ==
    (Done("reverseString") /\ IsString(args[1])) =>
        /\ outcome.kind = "return"
        /\ IsString(outcome.val)
        /\ LET s == args[1].s
               r == outcome.val.s
           IN /\ Len(r) = Len(s)
              /\ \A i \in 0..(Len(s) - 1) : r[i + 1] = s[(Len(s) - 1 - i) + 1]
              /\ Len(s) <= 1 => r = s

\* the surrogate pair D83D DE00 followed by "A" reverses unit by unit
C6_Witness ==
    /\ Done("reverseString")
    /\ args = <<Str(<<55357, 56832, 65>>)>>
    /\ outcome = Return(Str(<<65, 56832, 55357>>))

\* C7: reverseString(reverseString(s)) = s for every string s.
C7_ReverseInvolution ==
    (Done("reverseString") /\ IsString(args[1])) =>
        /\ outcome.kind = "return"
        /\ reverseString(outcome.val) = Return(args[1])

\* "Aza" reverses to "azA", which reverses to "Aza"
C7_Witness ==
    /\ Done("reverseString")
    /\ args = <<Str(<<65, 122, 97>>)>>
    /\ outcome = Return(Str(<<97, 122, 65>>))
    /\ reverseString(outcome.val) = Return(args[1])

\* C8: capitalize and reverseString throw a TypeError for every argument that
\* is not a string and return a value for every string.
C8_StringTypeError ==
    (Done("capitalize") \/ Done("reverseString")) =>
        /\ ~IsString(args[1]) => outcome = Throw("TypeError")
        /\ IsString(args[1]) => outcome.kind = "return"

\* capitalize(1) throws
C8_Witness ==
    /\ Done("capitalize")
    /\ args = <<Integer(1)>>
    /\ outcome = Throw("TypeError")

CalculatorCall ==
    Done("add") \/ Done("subtract") \/ Done("multiply") \/ Done("divide")

\* r = a + b, a - b, a * b or a / b, stated on the fractions without division
IsResultOf(name, r, a, b) ==
    /\ r.t = "number"
    /\ r.den >= 1
    /\ CASE name = "add" ->
              r.num * (a.den * b.den) = (a.num * b.den + b.num * a.den) * r.den
         [] name = "subtract" ->
              r.num * (a.den * b.den) = (a.num * b.den - b.num * a.den) * r.den
         [] name = "multiply" ->
              r.num * (a.den * b.den) = (a.num * b.num) * r.den
         [] name = "divide" ->
              r.num * (a.den * b.num) = (a.num * b.den) * r.den

\* a value of type number that is neither 0 nor -0 (NaN is such a value)
IsNonZeroNumber(v) == v.t = "number" /\ ~(v.num = 0 /\ v.den # 0)

\* C9, as stated: for every pair of non-zero numbers a and b the four
\* operations return a + b, a - b, a * b and a / b.
C9_Original ==
    (CalculatorCall /\ IsNonZeroNumber(args[1]) /\ IsNonZeroNumber(args[2])) =>
        /\ outcome.kind = "return"
        /\ \/ IsNaN(args[1]) /\ IsNaN(outcome.val)
           \/ IsNaN(args[2]) /\ IsNaN(outcome.val)
           \/ /\ ~IsNaN(args[1]) /\ ~IsNaN(args[2])
              /\ IsResultOf(fn, outcome.val, args[1], args[2])

\* C9, amended: for every pair of numbers a and b that are neither zero nor
\* NaN the four operations return a + b, a - b, a * b and a / b; the result
\* may itself be 0.
C9_Arithmetic ==
    (/\ CalculatorCall
     /\ args[1].t = "number" /\ args[1].num # 0
     /\ args[2].t = "number" /\ args[2].num # 0) =>
        /\ outcome.kind = "return"
        /\ IsResultOf(fn, outcome.val, args[1], args[2])

\* subtract(2.5, 2.5) returns 0
C9_Witness ==
    /\ Done("subtract")
    /\ args = <<Rat(5, 2), Rat(5, 2)>>
    /\ outcome = Return(Integer(0))

\* not of number type, or falsy: 0, -0 and NaN among the numbers
IsRejectedOperand(v) == v.t # "number" \/ v.num = 0

\* C10: each calculator operation throws a TypeError when either argument is
\* not of number type or is falsy, so 0 is rejected in either position.
C10_CalculatorTypeError ==
    (CalculatorCall /\ (IsRejectedOperand(args[1]) \/ IsRejectedOperand(args[2]))) =>
        outcome = Throw("TypeError")

\* multiply(3, 0) throws
C10_Witness ==
    /\ Done("multiply")
    /\ args = <<Integer(3), Integer(0)>>
    /\ outcome = Throw("TypeError")

\* the number 0, of either sign
IsZeroNumber(v) == v.t = "number" /\ v.num = 0 /\ v.den # 0

\* C11: calculator.divide(x, 0) fails for every non-zero number x and never
\* returns a value, and calculator.divide(0, x) fails for every number x
\* instead of returning 0.
C11_DivideZeroFails ==
    Done("divide") =>
        /\ (IsNonZeroNumber(args[1]) /\ IsZeroNumber(args[2])) =>
               outcome.kind = "throw"
        /\ (IsZeroNumber(args[1]) /\ args[2].t = "number") =>
               outcome.kind = "throw"

\* divide(0, 2.5) throws
C11_Witness ==
    /\ Done("divide")
    /\ args = <<Integer(0), Rat(5, 2)>>
    /\ outcome.kind = "throw"

\* C12, as stated: for all non-zero numbers a and b, add(a, b) equals
\* add(b, a) and b + a, and add(a, b) - b equals a over the integers.
C12_Original ==
    (Done("add") /\ IsNonZeroNumber(args[1]) /\ IsNonZeroNumber(args[2])) =>
        /\ outcome.kind = "return"
        /\ add(args[2], args[1]) = outcome
        /\ (~IsNaN(args[1]) /\ ~IsNaN(args[2])) =>
               IsResultOf("add", outcome.val, args[2], args[1])
        /\ (args[1].den = 1 /\ args[2].den = 1) =>
               outcome.val.num - args[2].num = args[1].num

\* C12, amended: for all numbers a and b that are neither zero nor NaN,
\* add(a, b) equals add(b, a) and b + a, and add(a, b) - b equals a exactly
\* over the bounded integers.
C12_AddCommutes ==
    (/\ Done("add")
     /\ args[1].t = "number" /\ args[1].num # 0
     /\ args[2].t = "number" /\ args[2].num # 0) =>
        /\ outcome.kind = "return"
        /\ add(args[2], args[1]) = outcome
        /\ IsResultOf("add", outcome.val, args[2], args[1])
        /\ (args[1].den = 1 /\ args[2].den = 1) =>
               /\ outcome.val.den = 1
               /\ outcome.val.num - args[2].num = args[1].num
               /\ Minus(outcome.val, args[2]) = args[1]

\* add(2, -3) returns -1
C12_Witness ==
    /\ Done("add")
    /\ args = <<Integer(2), Integer(-3)>>
    /\ outcome = Return(Integer(-1))

IsArray(v) == v.t = "array"
IsFinite(v) == v.t = "number" /\ v.den >= 1
HasNaN(elems) == \E i \in 1..Len(elems) : elems[i].num = 0 /\ elems[i].den = 0

\* twice the sum of the finite elements, which are integers and halves
RECURSIVE TwiceSum(_)
TwiceSum(elems) ==
    IF elems = <<>> THEN 0
    ELSE Head(elems).num * (2 \div Head(elems).den) + TwiceSum(Tail(elems))

\* a <= b on finite numbers
FiniteLeq(a, b) == a.num * b.den <= b.num * a.den

\* C13: for a non-empty array of numbers analyzeArray returns a record with
\* exactly the fields average, min, max and length, where length is the
\* number of elements, average the sum of the elements divided by length,
\* min the smallest and max the largest element (all three are NaN when an
\* element is NaN, which no element is smaller or larger than).
C13_AnalyzeArray ==
    (Done("analyzeArray") /\ IsArray(args[1]) /\ args[1].s # <<>>) =>
        /\ outcome.kind = "return"
        /\ DOMAIN outcome.val = {"average", "min", "max", "length"}
        /\ LET elems == args[1].s
               r == outcome.val
               n == Len(elems)
           IN /\ r.length = Integer(n)
              /\ \E i \in 1..n : r.min = elems[i]
              /\ \E i \in 1..n : r.max = elems[i]
              /\ HasNaN(elems) => IsNaN(r.average)
              /\ ~HasNaN(elems) =>
                    /\ IsFinite(r.average)
                    /\ r.average.num * (2 * n) = TwiceSum(elems) * r.average.den
                    /\ \A i \in 1..n : FiniteLeq(r.min, elems[i])
                    /\ \A i \in 1..n : FiniteLeq(elems[i], r.max)

\* analyzeArray([1, -2, 0.5]) is {average: -1/6, min: -2, max: 1, length: 3}
C13_Witness ==
    /\ Done("analyzeArray")
    /\ args = <<Arr(<<Integer(1), Integer(-2), Rat(1, 2)>>)>>
    /\ outcome = Return([average |-> Rat(-1, 6), min |-> Integer(-2),
                         max |-> Integer(1), length |-> Integer(3)])

\* C14: analyzeArray([]) returns {average: null, min: null, max: null,
\* length: 0}, and a field of a result is null only for the empty array.
C14_EmptyArray ==
    Done("analyzeArray") =>
        /\ args[1] = Arr(<<>>) =>
               outcome = Return([average |-> Null, min |-> Null, max |-> Null,
                                 length |-> Integer(0)])
        /\ (/\ outcome.kind = "return"
            /\ \/ outcome.val.average = Null
               \/ outcome.val.min = Null
               \/ outcome.val.max = Null) => args[1] = Arr(<<>>)

C14_Witness ==
    /\ Done("analyzeArray")
    /\ args = <<Arr(<<>>)>>
    /\ outcome.kind = "return"
    /\ outcome.val.length = Integer(0)

\* C15: analyzeArray throws a TypeError for every argument that is not an
\* array, the empty string and a plain object included, and returns a
\* record for every array.
C15_ArrayTypeError ==
    Done("analyzeArray") =>
        /\ ~IsArray(args[1]) => outcome = Throw("TypeError")
        /\ IsArray(args[1]) =>
               /\ outcome.kind = "return"
               /\ DOMAIN outcome.val = {"average", "min", "max", "length"}

\* analyzeArray("") throws
C15_Witness ==
    /\ Done("analyzeArray")
    /\ args = <<Str(<<>>)>>
    /\ outcome = Throw("TypeError")

\* the outcome of the invocation when it runs alone
AloneOutcome(t) ==
    IF t.fn = "reverseString" THEN reverseString(t.string)
    ELSE caesarCipher(t.string, t.shiftFactor)

\* C17: when invocations of reverseString and caesarCipher run interleaved
\* step by step, each returns what it returns when it runs alone.
C17_InterleavedAsAlone ==
    \A id \in DOMAIN tasks :
        tasks[id].pc = "done" => tasks[id].result = AloneOutcome(tasks[id])

\* two reverseString loops that advanced alternately and both returned
C17_Witness ==
    /\ DOMAIN tasks = TaskIds
    /\ \A id \in TaskIds :
          /\ tasks[id].fn = "reverseString"
          /\ tasks[id].pc = "done"
          /\ tasks[id].overlapped
    /\ tasks[1].string = Str(<<90, 97>>)
    /\ tasks[1].result = Return(Str(<<97, 90>>))
    /\ tasks[2].string = Str(<<44, 90>>)
    /\ tasks[2].result = Return(Str(<<90, 44>>))

\* C18: manager.createItem(name) creates a Model whose name is the given
\* name, appends it as the last element of allModels (one element more, the
\* earlier models unchanged and in the same order), and returns that Model.
C18_CreateItem ==
    [][nextId' = nextId + 1 =>
          /\ fn' = "createItem"
          /\ outcome'.kind = "return"
          /\ outcome'.val.name = args'[1]
          /\ manager'.models = Append(manager.models, outcome'.val)]_vars

\* the last event was a click on the submit or the cancel button
Clicked == fn \in {"submitClick", "cancelClick"}

Closed == ~dialog.open /\ dialog.context = EmptyObject

ControlNames == {controls[i].name : i \in DOMAIN controls} \ {""}

\* the position of the last control of a name
LastNamed(name) ==
    CHOOSE i \in DOMAIN controls :
        /\ controls[i].name = name
        /\ \A j \in DOMAIN controls : controls[j].name = name => j <= i

\* the submit callback was called once, while the dialog was open
CalledOnceWhileOpen ==
    /\ Len(observed.delivered) = 1
    /\ observed.delivered[1].callback = "submit"
    /\ observed.delivered[1].open

\* the keys of the context are in the payload, with the context's value
\* unless a control has the name
ContextDelivered(call) ==
    \A k \in DOMAIN call.lastOpen :
        /\ k \in DOMAIN call.payload
        /\ k \notin ControlNames => call.payload[k] = call.lastOpen[k]

\* C20 as stated: the submit callback is called once before the dialog
\* closes, with the keys of the context of the latest open() and the value
\* of every named control, the control winning over the context
C20_Original ==
    (fn = "submitClick" /\ dialog.onSubmit # "null") =>
        /\ CalledOnceWhileOpen
        /\ ContextDelivered(observed.delivered[1])
        /\ \A i \in DOMAIN controls :
              controls[i].name # "" =>
                 /\ controls[i].name \in DOMAIN observed.delivered[1].payload
                 /\ observed.delivered[1].payload[controls[i].name] = controls[i].value

\* C20: the submit callback is called once before the dialog closes, with
\* the keys of the context of the latest open() and, under every control
\* name, the value of the last control of that name, the control winning
\* over the context; the payload has no other key
C20_SubmitPayload ==
    (fn = "submitClick" /\ dialog.onSubmit # "null") =>
        /\ CalledOnceWhileOpen
        /\ ContextDelivered(observed.delivered[1])
        /\ DOMAIN observed.delivered[1].payload =
              DOMAIN observed.delivered[1].lastOpen \cup ControlNames
        /\ \A name \in ControlNames :
              observed.delivered[1].payload[name] = controls[LastNamed(name)].value

\* a submit with a control named as a key of the context, and another key
\* of the context delivered as it is
C20_Witness ==
    /\ fn = "submitClick"
    /\ CalledOnceWhileOpen
    /\ DOMAIN observed.delivered[1].lastOpen = {"id", "title"}
    /\ "title" \in ControlNames
    /\ observed.delivered[1].payload["title"] = "v1"
    /\ observed.delivered[1].payload["id"] = "c1"

\* C21: for every integer shift n, mod(n, 26) is the value r with
\* 0 <= r <= 25 and n - r divisible by 26, and every letter of the string
\* is shifted to a letter of its own case.
C21_ModNormalises ==
    (Done("caesarCipher") /\ IsString(args[1]) /\ IsInteger(args[2])) =>
        LET n == args[2].num
            r == mod(n, ALPHABET_SIZE)
        IN /\ r \in 0..25
           /\ (n - r) % 26 = 0
           /\ \A q \in 0..25 : (n - q) % 26 = 0 => q = r
           /\ outcome.kind = "return"
           /\ \A i \in 1..Len(args[1].s) :
                 /\ args[1].s[i] \in 65..90 => outcome.val.s[i] \in 65..90
                 /\ args[1].s[i] \in 97..122 => outcome.val.s[i] \in 97..122

\* mod(-3, 26) is 23: "aZ" shifted by -3 is "xW"
C21_Witness ==
    /\ Done("caesarCipher")
    /\ args = <<Str(<<97, 90>>), Integer(-3)>>
    /\ mod(-3, ALPHABET_SIZE) = 23
    /\ outcome = Return(Str(<<120, 87>>))

\* C22: calculator.divide never fails with the division-by-zero Error: it
\* returns the quotient or throws a TypeError, and a divisor equal to 0 is
\* rejected with the TypeError of the falsy guard.
C22_DivisionByZeroUnreachable ==
    Done("divide") =>
        /\ outcome # Throw("Error")
        /\ \/ outcome = Throw("TypeError")
           \/ /\ outcome.kind = "return"
              /\ outcome.val = Quotient(args[1], args[2])
        /\ IsZeroNumber(args[2]) => outcome = Throw("TypeError")

\* divide(2, 0) throws the TypeError
C22_Witness ==
    /\ Done("divide")
    /\ args = <<Integer(2), Integer(0)>>
    /\ outcome = Throw("TypeError")

\* C23: an invocation that fails has run no loop iteration and has built no
\* partial result: it throws from its entry, where the arguments are checked.
C23_FailsBeforeComputing ==
    \A id \in DOMAIN tasks :
        tasks[id].result.kind = "throw" =>
            /\ tasks[id].iterations = 0
            /\ tasks[id].i = 0
            /\ tasks[id].acc = <<>>

\* caesarCipher("a,", 1.2) has thrown without running its loop
C23_Witness ==
    /\ tasks[1].fn = "caesarCipher"
    /\ tasks[1].string = Str(<<97, 44>>)
    /\ tasks[1].shiftFactor = Rat(6, 5)
    /\ tasks[1].result = Throw("TypeError")
    /\ tasks[1].iterations = 0

\* the surrogate pairs of a string: a high surrogate followed by a low one
SurrogatePairs(units) ==
    {p \in 1..Len(units) - 1 :
        /\ units[p] \in 55296..56319
        /\ units[p + 1] \in 56320..57343}

\* the characters the string iterator yields: the code points
CharacterCount(units) == Len(units) - Cardinality(SurrogatePairs(units))

\* the invocation has ended after the iterations its argument asks for
Terminated(t) ==
    /\ t.pc = "done"
    /\ t.result # NoCall
    /\ (t.fn = "reverseString" /\ t.result.kind = "return") =>
           t.iterations = Len(t.string.s) /\ t.i = -1
    /\ (t.fn = "caesarCipher" /\ t.result.kind = "return") =>
           t.iterations = CharacterCount(t.string.s)

\* an iteration of the loop of reverseString reads index i, from length - 1
\* down to 0, and decrements it
ReverseIteration(t, u) ==
    (t.fn = "reverseString" /\ u.iterations = t.iterations + 1) =>
        /\ t.i = Len(t.string.s) - 1 - t.iterations
        /\ t.i >= 0
        /\ u.i = t.i - 1

\* C24: every invocation terminates: the loop of reverseString runs
\* length(s) iterations with its index decreasing by one from length - 1 to
\* 0, the loop of caesarCipher runs once per character of s, and then the
\* invocation returns.
C24_Terminates ==
    /\ [][\A id \in DOMAIN tasks : ReverseIteration(tasks[id], tasks'[id])]_vars
    /\ <>[](\A id \in DOMAIN tasks : Terminated(tasks[id]))

\* reverseString("aZ") has returned after two iterations
C24_Witness ==
    /\ tasks[1].fn = "reverseString"
    /\ tasks[1].string = Str(<<97, 90>>)
    /\ tasks[1].result = Return(Str(<<90, 97>>))
    /\ tasks[1].iterations = 2
    /\ tasks[1].i = -1

\* the model is null or one of the models of allModels
NullOrContained(model) ==
    \/ model = Null
    \/ \E i \in DOMAIN manager.models : manager.models[i] = model

\* C25: after any sequence of createItem, deleteItem, deleteModelById,
\* deleteAllModels, setActiveModelById and setDefaultModel, activeModel and
\* defaultModel are each null or a model contained in allModels.
C25_NoDeletedReference ==
    /\ NullOrContained(manager.activeModel)
    /\ NullOrContained(manager.defaultModel)

\* the models of the manager whose id is not id, in their order
Remaining(id) == SelectSeq(manager.models, LAMBDA model : model.id # id)

FirstRemaining(id) == IF Remaining(id) = <<>> THEN Null ELSE Remaining(id)[1]

\* the reference is to a model with this id
HasId(model, id) == model # Null /\ model.id = id

\* no model of allModels has the id
UnknownId(id) == \A i \in DOMAIN manager.models : manager.models[i].id # id

\* C26 as stated: deleteModelById(id) removes the models with the id and
\* keeps the others in their order; an active or default model with the id
\* becomes the first remaining model or null; when the id matches neither,
\* both are unchanged, and an unknown id leaves the manager unchanged.
C26_Original ==
    [][fn' = "deleteModelById" =>
          LET id == args'[1]
          IN /\ manager'.models = Remaining(id)
             /\ HasId(manager.activeModel, id) =>
                   manager'.activeModel = FirstRemaining(id)
             /\ HasId(manager.defaultModel, id) =>
                   manager'.defaultModel = FirstRemaining(id)
             /\ (~HasId(manager.activeModel, id) /\ ~HasId(manager.defaultModel, id)) =>
                   /\ manager'.activeModel = manager.activeModel
                   /\ manager'.defaultModel = manager.defaultModel
             /\ UnknownId(id) => manager' = manager]_vars

\* the reference is replaced: it is to a model with this id, or it is null
\* and the call has no id
Replaced(model, id) == HasId(model, id) \/ (model = Null /\ id = NoId)

\* C26: deleteModelById(id) removes the models with the id and keeps the
\* others in their order; activeModel becomes the first remaining model or
\* null when it has the id (be it a model deleted earlier) or when it is
\* null and the call has no id, and is unchanged otherwise; likewise
\* defaultModel.
C26_DeleteModelById ==
    [][fn' = "deleteModelById" =>
          LET id == args'[1]
          IN /\ manager'.models = Remaining(id)
             /\ manager'.activeModel =
                   IF Replaced(manager.activeModel, id)
                   THEN FirstRemaining(id) ELSE manager.activeModel
             /\ manager'.defaultModel =
                   IF Replaced(manager.defaultModel, id)
                   THEN FirstRemaining(id) ELSE manager.defaultModel]_vars

\* deleteModelById(1) has left the second model as the only, active and
\* default model
C26_Witness ==
    /\ fn = "deleteModelById"
    /\ args = <<1>>
    /\ Len(manager.models) = 1
    /\ manager.models[1].id = 2
    /\ manager.activeModel = manager.models[1]
    /\ manager.defaultModel = manager.models[1]

\* the stored data holds the models of the manager with their ids, names
\* and items, and the id of its default model
Stored(data, m) ==
    /\ data # Null
    /\ Len(data.models) = Len(m.models)
    /\ \A i \in DOMAIN m.models :
          /\ data.models[i].id = m.models[i].id
          /\ data.models[i].name = m.models[i].name
          /\ data.models[i].todos = m.models[i].items
    /\ IF m.defaultModel = Null THEN data.defaultModelId = Null
       ELSE data.defaultModelId = m.defaultModel.id

\* C27: saveToStorage stores the state of the manager, and loadFromStorage
\* on the stored data makes the manager hold the same models with the same
\* ids and names, each with its items, and the same default model.
C27_SaveLoadRestores ==
    /\ fn = "saveToStorage" =>
          outcome.kind = "return" /\ Stored(storage, manager)
    /\ (fn = "loadFromStorage" /\ storage # Null) =>
          outcome.kind = "return" /\ Stored(storage, manager)

LastSlide == carousel.slides - 1

\* C28: the slide index of a carousel of n >= 1 slides stays within
\* 0..n-1; with loop off, prevSlide at index 0 and nextSlide at index n-1
\* leave the index unchanged, and with loop on they wrap to n-1 and to 0.
C28_SlideIndex ==
    /\ [](carousel.slides >= 1 /\ carousel.slideIndex \in 0..LastSlide)
    /\ [][/\ (fn' = "prevSlide" /\ carousel.slideIndex = 0) =>
                carousel'.slideIndex = IF carousel.loop THEN LastSlide ELSE 0
          /\ (fn' = "nextSlide" /\ carousel.slideIndex = LastSlide) =>
                carousel'.slideIndex = IF carousel.loop THEN 0 ELSE LastSlide]_vars

\* nextSlide() at the last of three slides of a looping carousel has
\* wrapped to the first
C28_Witness ==
    /\ fn = "nextSlide"
    /\ carousel.slides = 3
    /\ carousel.loop
    /\ carousel.slideIndex = 0
    /\ timers.created >= 1

NoActiveTimer == carousel.cycleTimer = NullTimer /\ timers.scheduled = {}

\* startAutoCycle() or toggleAutoCycle(true) is called
StartCalled ==
    \/ fn' = "startAutoCycle"
    \/ fn' = "toggleAutoCycle" /\ args' = <<TRUE>>

\* stopAutoCycle() or toggleAutoCycle(false) is called
StopCalled ==
    \/ fn' = "stopAutoCycle"
    \/ fn' = "toggleAutoCycle" /\ args' = <<FALSE>>

\* C29: once stopAutoCycle() or toggleAutoCycle(false) has been called, no
\* timer is active and no timer tick changes the slide until
\* startAutoCycle() or toggleAutoCycle(true) is called, whatever the
\* navigation in between: the stop leaves no active timer, and no other
\* step than a start makes one.
C29_StoppedUntilStarted ==
    [][/\ StopCalled => NoActiveTimer'
       /\ (NoActiveTimer /\ ~StartCalled) =>
             NoActiveTimer' /\ fn' # "timerTick"]_vars

\* the timer of the carousel is the one scheduled interval, or there is none
OneTimer ==
    IF carousel.cycleTimer = NullTimer THEN timers.scheduled = {}
    ELSE timers.scheduled = {carousel.cycleTimer}

\* C30: in every reachable state the carousel has at most one interval
\* scheduled and not cleared, and it has one exactly when _cycleTimer is
\* not null.
C30_AtMostOneTimer ==
    /\ Cardinality(timers.scheduled) <= 1
    /\ Cardinality(timers.scheduled) = 1 <=> carousel.cycleTimer # NullTimer
    /\ OneTimer

\* a second start after a navigation that made a new timer: one interval
C30_Witness ==
    /\ fn = "startAutoCycle"
    /\ timers.created = 2
    /\ carousel.cycleTimer = 2
    /\ timers.scheduled = {2}

====
